---- MODULE Spec2Model ----
(***************************************************************************)
(* Model of src/index.js: the PDF-to-speech batch run.                     *)
(*                                                                         *)
(*   cleanText   (lines 38-46)   text normalisation, a pure function       *)
(*   run         (lines 48-196)  extraction, the chunking loop, the range  *)
(*                               selection, the synthesis loop and the     *)
(*                               final write of the output file            *)
(*                                                                         *)
(* Strings are sequences of character codes (UTF-16 code units).  String   *)
(* positions (pos, end, boundary) are 0-based as in the JavaScript code;   *)
(* the helper operators that walk a sequence use TLA+'s 1-based indices.   *)
(* Lengths are scaled down: the chunk size MAX_CHUNK_SIZE (2900 in the     *)
(* source) is a parameter of the run drawn from 1..MaxM and the provider   *)
(* limit (3000 in the source) is ProviderLimit.                            *)
(***************************************************************************)
EXTENDS Integers, Sequences, FiniteSets, TLC

VARIABLES raw, fullText, maxChunkSize, pos, chunks, spans,
          startChunk, maxChunksToProcess, chunksToProcess, i,
          audioBuffers, successCount, failCount,
          written, finalBuffer, trace, pc

vars == <<raw, fullText, maxChunkSize, pos, chunks, spans,
          startChunk, maxChunksToProcess, chunksToProcess, i,
          audioBuffers, successCount, failCount,
          written, finalBuffer, trace, pc>>

----------------------------------------------------------------------------
(* Bounds of the model *)

MaxTokens == 5
MaxLen == 7
MaxM == 4
MaxStart == 3
MaxCap == 2

----------------------------------------------------------------------------
(* Characters *)

\* JavaScript's \s class and the characters String.prototype.trim removes.
IsWhitespace(c) ==
    c \in ({9, 10, 11, 12, 13, 32, 160, 5760, 8232, 8233, 8239, 8287, 12288, 65279}
             \cup (8192..8202))

\* \d without the unicode flag: the ASCII digits.
IsDigit(c) == c \in 48..57

\* The complement of the class [^\x20-\x7E] of line 44.
IsPrintable(c) == c \in 32..126

\* Character at a 1-based index, -1 outside the string.
At(s, p) == IF p \in 1..Len(s) THEN s[p] ELSE -1

RECURSIVE SkipWs(_, _)
\* Greedy \s*: the first index at or after p that holds no whitespace.
SkipWs(s, p) == IF p <= Len(s) /\ IsWhitespace(s[p]) THEN SkipWs(s, p + 1) ELSE p

RECURSIVE SkipDigits(_, _)
\* Greedy \d*: the first index at or after p that holds no digit.
SkipDigits(s, p) == IF p <= Len(s) /\ IsDigit(s[p]) THEN SkipDigits(s, p + 1) ELSE p

----------------------------------------------------------------------------
(* cleanText, one operator per replace of lines 40-45 *)

\* /--\s*\d+\s*of\s*\d+\s*--/ anchored at index p: the index just after the
\* match, 0 when there is none.  Adjacent parts of the pattern match disjoint
\* character classes, so the greedy match is the only one.
MarkerEnd(s, p) ==
    IF ~(At(s, p) = 45 /\ At(s, p + 1) = 45) THEN 0
    ELSE LET b == SkipWs(s, p + 2)
             c == SkipDigits(s, b)
             d == SkipWs(s, c)
             e == SkipWs(s, d + 2)
             f == SkipDigits(s, e)
             g == SkipWs(s, f)
         IN IF /\ c > b
               /\ At(s, d) = 111 /\ At(s, d + 1) = 102
               /\ f > e
               /\ At(s, g) = 45 /\ At(s, g + 1) = 45
            THEN g + 2 ELSE 0

RECURSIVE RemoveMarkers(_, _)
\* .replace(/--\s*\d+\s*of\s*\d+\s*--/g, "")
RemoveMarkers(s, p) ==
    IF p > Len(s) THEN <<>>
    ELSE LET e == MarkerEnd(s, p)
         IN IF e # 0 THEN RemoveMarkers(s, e)
            ELSE <<s[p]>> \o RemoveMarkers(s, p + 1)

\* /\n\s*\n/ anchored at index p: \s* is greedy and backtracks to the last
\* newline of the whitespace run.  Index just after the match, 0 when none.
BlankRunEnd(s, p) ==
    IF At(s, p) # 10 THEN 0
    ELSE LET q == SkipWs(s, p + 1)
             nls == {k \in (p + 1)..(q - 1) : s[k] = 10}
         IN IF nls = {} THEN 0
            ELSE (CHOOSE k \in nls : \A m \in nls : m <= k) + 1

RECURSIVE CollapseBlankRuns(_, _)
\* .replace(/\n\s*\n/g, " ")
CollapseBlankRuns(s, p) ==
    IF p > Len(s) THEN <<>>
    ELSE LET e == BlankRunEnd(s, p)
         IN IF e # 0 THEN <<32>> \o CollapseBlankRuns(s, e)
            ELSE <<s[p]>> \o CollapseBlankRuns(s, p + 1)

\* .replace(/\n/g, " ")
ReplaceNewlines(s) == [k \in 1..Len(s) |-> IF s[k] = 10 THEN 32 ELSE s[k]]

RECURSIVE CollapseWhitespace(_, _)
\* .replace(/\s+/g, " ")
CollapseWhitespace(s, p) ==
    IF p > Len(s) THEN <<>>
    ELSE IF IsWhitespace(s[p]) THEN <<32>> \o CollapseWhitespace(s, SkipWs(s, p))
    ELSE <<s[p]>> \o CollapseWhitespace(s, p + 1)

\* .replace(/[^\x20-\x7E]/g, " ")
BlankNonPrintable(s) == [k \in 1..Len(s) |-> IF IsPrintable(s[k]) THEN s[k] ELSE 32]

\* String.prototype.trim
Trim(s) ==
    LET keep == {k \in 1..Len(s) : ~IsWhitespace(s[k])}
    IN IF keep = {} THEN <<>>
       ELSE LET lo == CHOOSE k \in keep : \A m \in keep : k <= m
                hi == CHOOSE k \in keep : \A m \in keep : m <= k
            IN SubSeq(s, lo, hi)

cleanText(text) ==
    Trim(BlankNonPrintable(CollapseWhitespace(ReplaceNewlines(
        CollapseBlankRuns(RemoveMarkers(text, 1), 1)), 1)))

----------------------------------------------------------------------------
(* Inputs of the normaliser: concatenations of at most MaxTokens tokens *)

\* "a", " ", "\n", U+0001, "--", "1", "of"
Tokens == {<<97>>, <<32>>, <<10>>, <<1>>, <<45, 45>>, <<49>>, <<111, 102>>}

RECURSIVE Concat(_)
Concat(ss) == IF ss = <<>> THEN <<>> ELSE Head(ss) \o Concat(Tail(ss))

RawInputs == {Concat(ts) : ts \in UNION {[1..n -> Tokens] : n \in 0..MaxTokens}}

----------------------------------------------------------------------------
(* String primitives used by run *)

\* String.prototype.substring(a, b) for 0 <= a <= b: b is clamped to the length.
Substring(s, a, b) ==
    LET hi == IF b > Len(s) THEN Len(s) ELSE b
    IN IF a >= hi THEN <<>> ELSE SubSeq(s, a + 1, hi)

\* TRUE iff search occurs in s at the 0-based index k.
OccursAt(s, search, k) ==
    /\ k >= 0
    /\ k + Len(search) <= Len(s)
    /\ \A j \in 1..Len(search) : s[k + j] = search[j]

\* String.prototype.lastIndexOf(search, from): the greatest 0-based index
\* k <= from at which search occurs, -1 when there is none.
LastIndexOf(s, search, from) ==
    LET hits == {k \in 0..from : OccursAt(s, search, k)}
    IN IF hits = {} THEN -1
       ELSE CHOOSE k \in hits : \A m \in hits : m <= k

\* Array.prototype.slice(a, b): negative arguments count from the end.
Slice(seq, a, b) ==
    LET n == Len(seq)
        lo == IF a < 0 THEN (IF n + a < 0 THEN 0 ELSE n + a)
              ELSE (IF a > n THEN n ELSE a)
        hi == IF b < 0 THEN (IF n + b < 0 THEN 0 ELSE n + b)
              ELSE (IF b > n THEN n ELSE b)
    IN IF lo >= hi THEN <<>> ELSE SubSeq(seq, lo + 1, hi)

Min(a, b) == IF a < b THEN a ELSE b

----------------------------------------------------------------------------
(* The chunking loop, lines 78-96 *)

\* Mutant of ChunkEnd: the ". " search is left out, the last space decides.
ChunkEnd_SpaceOnly(text, p, m) ==
    LET end == p + m
    IN IF end < Len(text)
       THEN LET boundary == LastIndexOf(text, <<32>>, end)
            IN IF boundary > p THEN boundary + 1 ELSE end
       ELSE end

\* Mutant of ChunkEnd: a boundary at the cursor itself is accepted
\* (boundary >= pos for boundary > pos).
ChunkEnd_BoundaryAtCursor(text, p, m) ==
    LET end == p + m
    IN IF end < Len(text)
       THEN LET dot == LastIndexOf(text, <<46, 32>>, end)
                boundary == IF dot = -1 \/ dot <= p
                            THEN LastIndexOf(text, <<32>>, end)
                            ELSE dot
            IN IF boundary >= p THEN boundary + 1 ELSE end
       ELSE end

\* Lines 83-90: the end of the span that starts at cursor p.
ChunkEnd(text, p, m) ==
    LET end == p + m
    IN IF end < Len(text)
       THEN LET dot == LastIndexOf(text, <<46, 32>>, end)
                boundary == IF dot = -1 \/ dot <= p
                            THEN LastIndexOf(text, <<32>>, end)
                            ELSE dot
            IN IF boundary > p THEN boundary + 1 ELSE end
       ELSE end

\* Mutant of ChunkOf: the last character of the span is left out.
ChunkOf_DropsLast(text, p, e) == Trim(Substring(text, p, e - 1))

\* Line 91: the chunk cut from the span [p, e).
ChunkOf(text, p, e) == Trim(Substring(text, p, e))

\* Line 95: the cursor after the span [p, e) was cut.
NextPos(p, e) == e

\* One iteration of the while loop.  spans records, per iteration, the cursor,
\* the end that was chosen and the trimmed chunk.
ChunkStep ==
    /\ pc = "Chunking"
    /\ pos < Len(fullText)
    /\ LET end == ChunkEnd(fullText, pos, maxChunkSize)
           chunk == ChunkOf(fullText, pos, end)
       IN /\ chunks' = IF Len(chunk) > 0 THEN Append(chunks, chunk) ELSE chunks
          /\ spans' = Append(spans, [pos |-> pos, end |-> end, chunk |-> chunk])
          /\ pos' = NextPos(pos, end)
    /\ UNCHANGED <<raw, fullText, maxChunkSize, startChunk, maxChunksToProcess,
                   chunksToProcess, i, audioBuffers, successCount, failCount,
                   written, finalBuffer, trace, pc>>

----------------------------------------------------------------------------
(* Extraction, lines 54-75 *)

Extract ==
    /\ pc = "Extracting"
    /\ fullText' = cleanText(raw)
    /\ pc' = IF Len(fullText') = 0 THEN "Failed" ELSE "Chunking"
    /\ UNCHANGED <<raw, maxChunkSize, pos, chunks, spans, startChunk,
                   maxChunksToProcess, chunksToProcess, i, audioBuffers,
                   successCount, failCount, written, finalBuffer, trace>>

----------------------------------------------------------------------------
(* The selected range, lines 100-111 *)

\* MAX_CHUNKS_TO_PROCESS is <<>> for null and <<c>> for the number c.
\* JavaScript truthiness of the value: null and 0 are falsy.
Truthy(v) == v # <<>> /\ v[1] # 0

\* Line 101
StartIdx(start) == start - 1

\* Lines 102-104
EndIdx(startIdx, cap, n) ==
    IF Truthy(cap) THEN Min(startIdx + cap[1], n) ELSE n

Select ==
    /\ pc = "Chunking"
    /\ pos >= Len(fullText)
    /\ LET startIdx == StartIdx(startChunk)
           endIdx == EndIdx(startIdx, maxChunksToProcess, Len(chunks))
       IN chunksToProcess' = Slice(chunks, startIdx, endIdx)
    /\ i' = 0
    /\ audioBuffers' = <<>>
    /\ successCount' = 0
    /\ failCount' = 0
    /\ pc' = IF 0 < Len(chunksToProcess') THEN "Synthesizing" ELSE "Finalizing"
    /\ UNCHANGED <<raw, fullText, maxChunkSize, pos, chunks, spans, startChunk,
                   maxChunksToProcess, written, finalBuffer, trace>>

----------------------------------------------------------------------------
(* The synthesis loop, lines 113-174 *)

\* The provider's hard limit of line 127 (3000 in the source), on the scale
\* of the model's chunk sizes.
ProviderLimit == 3

\* Line 114
ChunkNumber(start, idx) == StartIdx(start) + idx + 1

\* Byte buffers the provider can return for chunk k: none, or two bytes
\* tagged with the chunk number.
Buffers(k) == {<<>>, <<k, k>>}

\* Objects a failed await of lines 133-139 can throw: no error field, an
\* error field with another code, the insufficient-funds code.
Errors ==
    {[hasError |-> FALSE, code |-> "none"],
     [hasError |-> TRUE, code |-> "rate_limited"],
     [hasError |-> TRUE, code |-> "insufficient_funds"]}

\* Mutant of IsInsufficientFunds: the code is never recognised.
IsInsufficientFunds_Never(e) == FALSE

\* Mutant of IsInsufficientFunds: every object with an error field is fatal.
IsInsufficientFunds_AnyError(e) == e.hasError

\* Line 153
IsInsufficientFunds(e) == e.hasError /\ e.code = "insufficient_funds"

\* Line 171
DelayDue(idx, n) == idx < n - 1

\* Line 120
TextToConvert == Trim(chunksToProcess[i + 1])

\* What the loop did with chunk number chunk: "return" with the buffer that
\* came back, "throw" with the code of the thrown object, "reject", "skip",
\* or the "delay" awaited after it.
Event(ev, buf, code) ==
    [ev |-> ev, chunk |-> ChunkNumber(startChunk, i), buffer |-> buf, code |-> code]

\* The end of an iteration that reaches lines 170-173: the delay is awaited
\* when this is not the last chunk, otherwise i++ ends the loop.
FallThrough ==
    IF DelayDue(i, Len(chunksToProcess))
    THEN pc' = "Delaying" /\ i' = i
    ELSE pc' = "Finalizing" /\ i' = i + 1

\* continue (lines 124 and 130): straight to i++ and the loop test.
Continue ==
    /\ i' = i + 1
    /\ pc' = IF i + 1 < Len(chunksToProcess) THEN "Synthesizing" ELSE "Finalizing"

\* Lines 122-131: an empty chunk is skipped, an oversized one is rejected.
SkipOrReject ==
    /\ pc = "Synthesizing"
    /\ Len(TextToConvert) = 0 \/ Len(TextToConvert) > ProviderLimit
    /\ IF Len(TextToConvert) = 0
       THEN failCount' = failCount /\ trace' = Append(trace, Event("skip", <<>>, ""))
       ELSE failCount' = failCount + 1 /\ trace' = Append(trace, Event("reject", <<>>, ""))
    /\ Continue
    /\ UNCHANGED <<raw, fullText, maxChunkSize, pos, chunks, spans, startChunk,
                   maxChunksToProcess, chunksToProcess, audioBuffers,
                   successCount, written, finalBuffer>>

\* Lines 133-148: txt2speech, fetch and arrayBuffer all return.
SynthReturns ==
    /\ pc = "Synthesizing"
    /\ Len(TextToConvert) \in 1..ProviderLimit
    /\ \E buffer \in Buffers(ChunkNumber(startChunk, i)) :
         IF Len(buffer) > 0
         THEN /\ audioBuffers' = Append(audioBuffers, buffer)
              /\ successCount' = successCount + 1
              /\ failCount' = failCount
              /\ trace' = Append(trace, Event("return", buffer, ""))
         ELSE /\ audioBuffers' = audioBuffers
              /\ successCount' = successCount
              /\ failCount' = failCount + 1
              /\ trace' = Append(trace, Event("return", buffer, ""))
    /\ FallThrough
    /\ UNCHANGED <<raw, fullText, maxChunkSize, pos, chunks, spans, startChunk,
                   maxChunksToProcess, chunksToProcess, written, finalBuffer>>

\* Lines 149-168: one of the awaits of lines 133-138 throws.
SynthThrows ==
    /\ pc = "Synthesizing"
    /\ Len(TextToConvert) \in 1..ProviderLimit
    /\ failCount' = failCount + 1
    /\ \E chunkError \in Errors :
         /\ trace' = Append(trace, Event("throw", <<>>, chunkError.code))
         /\ IF IsInsufficientFunds(chunkError)
            THEN pc' = "Finalizing" /\ i' = i
            ELSE FallThrough
    /\ UNCHANGED <<raw, fullText, maxChunkSize, pos, chunks, spans, startChunk,
                   maxChunksToProcess, chunksToProcess, audioBuffers,
                   successCount, written, finalBuffer>>

\* Line 172: the timer fires, i++ and the next iteration starts.
Delay ==
    /\ pc = "Delaying"
    /\ trace' = Append(trace, Event("delay", <<>>, ""))
    /\ i' = i + 1
    /\ pc' = "Synthesizing"
    /\ UNCHANGED <<raw, fullText, maxChunkSize, pos, chunks, spans, startChunk,
                   maxChunksToProcess, chunksToProcess, audioBuffers,
                   successCount, failCount, written, finalBuffer>>

----------------------------------------------------------------------------
(* Finalisation, lines 176-190 *)

\* Mutant of BufferConcat: only the last buffer is kept.
BufferConcat_LastOnly(bufs) == bufs[Len(bufs)]

\* Buffer.concat
BufferConcat(bufs) == Concat(bufs)

Finalize ==
    /\ pc = "Finalizing"
    /\ IF Len(audioBuffers) > 0
       THEN finalBuffer' = BufferConcat(audioBuffers) /\ written' = TRUE
       ELSE finalBuffer' = finalBuffer /\ written' = written
    /\ pc' = "Done"
    /\ UNCHANGED <<raw, fullText, maxChunkSize, pos, chunks, spans, startChunk,
                   maxChunksToProcess, chunksToProcess, i, audioBuffers,
                   successCount, failCount, trace>>

----------------------------------------------------------------------------
(* Specifications *)

\* State before run has done anything that depends on its inputs.
Fresh ==
    /\ fullText = <<>> /\ pos = 0 /\ chunks = <<>> /\ spans = <<>>
    /\ chunksToProcess = <<>> /\ i = 0 /\ audioBuffers = <<>>
    /\ successCount = 0 /\ failCount = 0
    /\ written = FALSE /\ finalBuffer = <<>> /\ trace = <<>>

\* The documents of the whole-run specification:
\*   "a b c d e", "ab.\n\ncde fg", "--1of2--", "abc abcd a", "a. bcd"
Books ==
    {<<97, 32, 98, 32, 99, 32, 100, 32, 101>>,
     <<97, 98, 46, 10, 10, 99, 100, 101, 32, 102, 103>>,
     <<45, 45, 49, 111, 102, 50, 45, 45>>,
     <<97, 98, 99, 32, 97, 98, 99, 100, 32, 97>>,
     <<97, 46, 32, 98, 99, 100>>}

ChunkSizes == 1..MaxM

Caps == {<<>>} \cup {<<c>> : c \in 0..MaxCap}

\* The whole run.
Init ==
    /\ raw \in Books
    /\ maxChunkSize \in ChunkSizes
    /\ startChunk \in 1..MaxStart
    /\ maxChunksToProcess \in Caps
    /\ pc = "Extracting"
    /\ Fresh

Next ==
    \/ Extract
    \/ ChunkStep
    \/ Select
    \/ SkipOrReject
    \/ SynthReturns
    \/ SynthThrows
    \/ Delay
    \/ Finalize

Spec == Init /\ [][Next]_vars

\* The normaliser alone, over every input of RawInputs.
InitClean ==
    /\ raw \in RawInputs
    /\ maxChunkSize = 1
    /\ startChunk = 1
    /\ maxChunksToProcess = <<>>
    /\ pc = "Extracting"
    /\ Fresh

NextClean == Extract

SpecClean == InitClean /\ [][NextClean]_vars

\* Normalised texts: printable, non-empty, no whitespace at either end.
\* Each is cleanText of itself with its spaces replaced by U+0001.
NormalizedTexts ==
    {t \in UNION {[1..n -> {97, 46, 32}] : n \in 1..MaxLen} :
        t[1] # 32 /\ t[Len(t)] # 32}

\* The chunker alone, over every normalised text and chunk size.
InitChunk ==
    /\ raw = <<>>
    /\ fullText \in NormalizedTexts
    /\ maxChunkSize \in ChunkSizes
    /\ startChunk = 1
    /\ maxChunksToProcess = <<>>
    /\ pc = "Chunking"
    /\ pos = 0 /\ chunks = <<>> /\ spans = <<>>
    /\ chunksToProcess = <<>> /\ i = 0 /\ audioBuffers = <<>>
    /\ successCount = 0 /\ failCount = 0
    /\ written = FALSE /\ finalBuffer = <<>> /\ trace = <<>>

NextChunk == ChunkStep

SpecChunk == InitChunk /\ [][NextChunk]_vars

----------------------------------------------------------------------------
(* Properties of the normaliser and the chunker *)

\* The characters of s that are not whitespace, in order.
NonWs(s) == SelectSeq(s, LAMBDA c : ~IsWhitespace(c))

\* 0-based character of the normalised text, -1 outside it.
CharAt(k) == At(fullText, k + 1)

SetMax(S) == CHOOSE k \in S : \A m \in S : m <= k

\* Text remains beyond the tentative cutoff of the span r.
TextRemains(r) == r.pos + maxChunkSize < Len(fullText)

\* The lookback window of the span r: the positions strictly after the cursor
\* up to the tentative cutoff.
Window(r) == (r.pos + 1)..(r.pos + maxChunkSize)

\* Positions of the window that hold the period of a ". ".
DotsIn(r) == {b \in Window(r) : CharAt(b) = 46 /\ CharAt(b + 1) = 32}

\* Positions of the window that hold a space.
SpacesIn(r) == {b \in Window(r) : CharAt(b) = 32}

HardCut(r) == TextRemains(r) /\ DotsIn(r) = {} /\ SpacesIn(r) = {}

\* C1: every chunk the chunker emits is at most MAX_CHUNK_SIZE characters
\* long.
C1_ChunkWithinMax ==
    \A k \in 1..Len(chunks) : Len(chunks[k]) <= maxChunkSize

\* s is t with whitespace (and nothing else) removed from its two ends.
TrimmedFrom(s, t) ==
    \E a \in 0..Len(t) :
        /\ a + Len(s) <= Len(t)
        /\ \A k \in 1..Len(s) : t[a + k] = s[k]
        /\ \A k \in 1..Len(t) : (k <= a \/ k > a + Len(s)) => IsWhitespace(t[k])
        /\ Len(s) > 0 => ~IsWhitespace(s[1]) /\ ~IsWhitespace(s[Len(s)])

SpanChunks == [k \in 1..Len(spans) |-> spans[k].chunk]

\* C2: the spans [pos, end) are contiguous, in order and start at 0, the
\* cursor is the end of the last one, each span yields its text with only
\* whitespace removed at its two ends, the chunks are the non-empty ones of
\* these in order, and the chunks emitted so far hold exactly the
\* non-whitespace characters of the text before the cursor, once each and in
\* order (of the whole text when the loop has ended).
C2_NoLossNoDuplication ==
    /\ \A k \in 1..Len(spans) :
         /\ spans[k].pos = (IF k = 1 THEN 0 ELSE spans[k - 1].end)
         /\ spans[k].pos < spans[k].end
         /\ spans[k].pos < Len(fullText)
         /\ TrimmedFrom(spans[k].chunk,
                        Substring(fullText, spans[k].pos, spans[k].end))
    /\ pos = (IF spans = <<>> THEN 0 ELSE spans[Len(spans)].end)
    /\ chunks = SelectSeq(SpanChunks, LAMBDA c : c # <<>>)
    /\ NonWs(Concat(chunks)) = NonWs(Substring(fullText, 0, pos))
    /\ pos >= Len(fullText) => NonWs(Concat(chunks)) = NonWs(fullText)

\* C2 witness: the loop has ended after at least three spans, one of which
\* lost whitespace at an end and one of which yielded no chunk at all.
C2_Witness ==
    /\ pc = "Chunking"
    /\ pos >= Len(fullText)
    /\ Len(spans) >= 3
    /\ \E k \in 1..Len(spans) :
         /\ spans[k].chunk # <<>>
         /\ Len(spans[k].chunk) < spans[k].end - spans[k].pos
         /\ spans[k].end <= Len(fullText)
    /\ \E k \in 1..Len(spans) : spans[k].chunk = <<>>

\* C3: normalising the normalised text returns it unchanged.
C3_Idempotent ==
    pc # "Extracting" => cleanText(fullText) = fullText

\* C8: when text remains beyond the cutoff and a ". " starts in the lookback
\* window, the span ends right after the period of the last such ". " and the
\* chunk ends with that period; when there is no such ". " but a space in the
\* window, the span ends right after the last such space.
C8_SentenceBoundaryPreferred ==
    \A k \in 1..Len(spans) :
        LET r == spans[k] IN
        TextRemains(r) =>
            /\ DotsIn(r) # {} =>
                 /\ r.end = SetMax(DotsIn(r)) + 1
                 /\ CharAt(r.end) = 32
                 /\ r.chunk # <<>> /\ r.chunk[Len(r.chunk)] = 46
            /\ (DotsIn(r) = {} /\ SpacesIn(r) # {}) =>
                 r.end = SetMax(SpacesIn(r)) + 1

\* C8 witness: a span was cut after a ". " although a plain space lay closer
\* to the cutoff, and another span was cut after a plain space.
C8_Witness ==
    /\ \E k \in 1..Len(spans) :
         LET r == spans[k] IN
         /\ TextRemains(r)
         /\ DotsIn(r) # {}
         /\ \E b \in SpacesIn(r) : b > SetMax(DotsIn(r)) + 1
    /\ \E k \in 1..Len(spans) :
         LET r == spans[k] IN
         TextRemains(r) /\ DotsIn(r) = {} /\ SpacesIn(r) # {}

\* C9 as stated: on a hard cut the chunk is exactly MAX_CHUNK_SIZE characters
\* long and the cursor advances by exactly MAX_CHUNK_SIZE.
C9_HardCutChunkIsM ==
    \A k \in 1..Len(spans) :
        LET r == spans[k] IN
        HardCut(r) =>
            /\ r.end - r.pos = maxChunkSize
            /\ Len(r.chunk) = maxChunkSize

\* C9 amended: on a hard cut the cursor advances by exactly MAX_CHUNK_SIZE;
\* the chunk is MAX_CHUNK_SIZE characters long when the cursor is not on a
\* space and MAX_CHUNK_SIZE - 1 characters long (the span without its leading
\* space) when it is.
C9_HardCutAdvancesM ==
    \A k \in 1..Len(spans) :
        LET r == spans[k] IN
        HardCut(r) =>
            /\ r.end - r.pos = maxChunkSize
            /\ CharAt(r.pos) # 32 => Len(r.chunk) = maxChunkSize
            /\ CharAt(r.pos) = 32 =>
                 /\ Len(r.chunk) = maxChunkSize - 1
                 /\ r.chunk = Substring(fullText, r.pos + 1, r.end)

\* C9 witness: a hard cut right after a sentence split, the cursor on the
\* space that follows the period, with a chunk one character short; and a
\* hard cut with the cursor on no space.
C9_Witness ==
    /\ \E k \in 2..Len(spans) :
         /\ HardCut(spans[k])
         /\ DotsIn(spans[k - 1]) # {}
         /\ CharAt(spans[k].pos) = 32
         /\ spans[k].chunk # <<>>
         /\ Len(spans[k].chunk) = maxChunkSize - 1
    /\ \E k \in 1..Len(spans) : HardCut(spans[k]) /\ CharAt(spans[k].pos) # 32

----------------------------------------------------------------------------
(* Properties of the selected range, the synthesis loop and the output *)

\* The thrown object carried the insufficient-funds code.
IsFatalEvent(e) == e.ev = "throw" /\ e.code = "insufficient_funds"

\* The provider returned audio bytes.
IsSuccessEvent(e) == e.ev = "return" /\ Len(e.buffer) > 0

\* An empty buffer, a thrown error of any kind, or a rejection for size.
IsFailureEvent(e) ==
    \/ e.ev = "return" /\ Len(e.buffer) = 0
    \/ e.ev = "throw"
    \/ e.ev = "reject"

Successes == {j \in 1..Len(trace) : IsSuccessEvent(trace[j])}
Failures == {j \in 1..Len(trace) : IsFailureEvent(trace[j])}
Fatals == {j \in 1..Len(trace) : IsFatalEvent(trace[j])}

\* The events of the chunks, the delays left out.
Attempts == SelectSeq(trace, LAMBDA e : e.ev # "delay")

AfterLoop == pc \in {"Finalizing", "Done"}

\* The chunk of event e is not the last one of the selected range.
NotLast(e) == e.chunk < StartIdx(startChunk) + Len(chunksToProcess)

\* C4: an insufficient-funds error is the last thing the loop does: no event
\* of a later chunk and no delay follows it, the loop is over and control is
\* at (or past) finalisation, and the failure count holds that chunk once,
\* beside one for every other failed chunk.
C4_FatalAbortsLoop ==
    \A j \in Fatals :
        /\ j = Len(trace)
        /\ AfterLoop
        /\ failCount = Cardinality(Failures)
        /\ successCount = Cardinality(Successes)
        /\ ChunkNumber(startChunk, i) = trace[j].chunk

\* C4 witness: the run is over, the fatal error came after a success and a
\* delay, and chunks of the range were left behind it.
C4_Witness ==
    /\ pc = "Done"
    /\ Len(trace) >= 3
    /\ IsFatalEvent(trace[Len(trace)])
    /\ IsSuccessEvent(trace[1])
    /\ NotLast(trace[Len(trace)])

\* The audio segment of chunk number k: the bytes returned for it, nothing
\* when it did not succeed.
SegmentOf(k) ==
    IF \E j \in Successes : trace[j].chunk = k
    THEN trace[CHOOSE j \in Successes : trace[j].chunk = k].buffer
    ELSE <<>>

ExpectedOutput == Concat([k \in 1..Len(chunks) |-> SegmentOf(k)])

\* C5: nothing is written before the run is done; when it is done the file
\* is written iff some chunk succeeded, and then it holds the segments of the
\* successful chunks in ascending chunk order and nothing else.
C5_OutputIsSuccessfulSegments ==
    /\ pc # "Done" => ~written /\ finalBuffer = <<>>
    /\ pc = "Done" =>
         /\ written <=> Successes # {}
         /\ written => finalBuffer = ExpectedOutput
         /\ ~written => finalBuffer = <<>>

\* C5 witness: a written file after a run with a success, then a failure,
\* then a success, then the fatal error.
C5_Witness ==
    /\ pc = "Done"
    /\ written
    /\ Fatals # {}
    /\ \E a, b, c \in 1..Len(trace) :
         /\ a < b /\ b < c
         /\ IsSuccessEvent(trace[a])
         /\ IsFailureEvent(trace[b])
         /\ IsSuccessEvent(trace[c])

\* C6: the two counters count the failed and the successful chunks once
\* each, the chunks are attempted in order with no chunk twice, and when the
\* loop has ended with no insufficient-funds error every chunk of the range
\* was attempted and successCount + failCount is the size of the range.
C6_FailuresCountedLoopContinues ==
    /\ failCount = Cardinality(Failures)
    /\ successCount = Cardinality(Successes)
    /\ \A k \in 1..Len(Attempts) : Attempts[k].chunk = StartIdx(startChunk) + k
    /\ Len(Attempts) <= Len(chunksToProcess)
    /\ (AfterLoop /\ Fatals = {}) =>
         /\ Len(Attempts) = Len(chunksToProcess)
         /\ successCount + failCount = Len(chunksToProcess)

\* C6 witness: three chunks, the second fails with another error code, the
\* first and the third succeed.
C6_Witness ==
    /\ pc = "Done"
    /\ Len(chunksToProcess) = 3
    /\ Len(Attempts) = 3
    /\ IsSuccessEvent(Attempts[1])
    /\ Attempts[2].ev = "throw" /\ Attempts[2].code = "rate_limited"
    /\ IsSuccessEvent(Attempts[3])
    /\ successCount = 2 /\ failCount = 1

\* Chunks with the 1-based indices lo..hi.
ChunksFromTo(lo, hi) ==
    IF hi < lo THEN <<>> ELSE [k \in 1..(hi - lo + 1) |-> chunks[lo + k - 1]]

\* C7: the chunks handed to the loop are those with 1-based indices in
\* [START_CHUNK, START_CHUNK + cap) cut to [1, n], all of START_CHUNK..n when
\* the cap is null, and never more than a configured cap.
C7_SelectedRange ==
    pc \in {"Synthesizing", "Delaying", "Finalizing", "Done"} =>
        /\ chunksToProcess =
             (IF maxChunksToProcess = <<>>
              THEN ChunksFromTo(startChunk, Len(chunks))
              ELSE ChunksFromTo(startChunk,
                       Min(startChunk + maxChunksToProcess[1] - 1, Len(chunks))))
        /\ maxChunksToProcess # <<>> =>
             Len(chunksToProcess) <= maxChunksToProcess[1]

====
